---- MODULE Spec2Model ----
(***************************************************************************)
(* Model of the raspbian-config image builder.                             *)
(*                                                                         *)
(*   Spec     the resumable pipeline of create_img.py: main() is run again *)
(*            and again against the status file ".status"; every stage of  *)
(*            main() is one step, the external commands succeed or fail    *)
(*            nondeterministically.                                        *)
(*   SpecLib  the status store of lib/common.py (read_file, write_file,    *)
(*            load_status, save_status, exit_script) applied to a status   *)
(*            file in every state it can be in.                            *)
(*   SpecCmd  the command executor of lib/common.py (run_cmd, Chroot)      *)
(*            called again and again in one process.                       *)
(***************************************************************************)
EXTENDS Integers, Sequences, FiniteSets, TLC

VARIABLES
    disk,        \* create_img.py: content of the status file ".status"
    pc,          \* position of main(): "idle", a stage name, "done", "raised"
    old_status,  \* main(): snapshot loaded at the start of the run
    new_status,  \* main(): snapshot accumulated by the run
    img_file,    \* main(): local img_file ("" while unset)
    loop_dev,    \* main(): local loop_dev ("" while unset)
    calls,       \* log of the run: the actions invoked, in order, with result
    saves,       \* log of the run: the save_status calls, in order
    ret,         \* value returned by main() (-1 while the run has not returned)
    prev,        \* the previous run: its return value and its save_status calls
    host,        \* the machine main() runs on: the attached loop devices and
                 \*   the partitions mounted on /mnt and on /mnt/boot/firmware
    lib_file,    \* lib/common.py: content of the status file
    lib_op,      \* lib/common.py: the last call made
    lib_arg,     \* lib/common.py: the snapshot / status code given to that call
    lib_res,     \* lib/common.py: what that call returned (or that it raised)
    lib_env,     \* lib/common.py: what the host did to the file access of that
                 \*   call, and the contents given to write_file
    proc,        \* lib/common.py: the process: filesystem root, working directory,
                 \*   number of open descriptors on a root directory
    cmd_op,      \* lib/common.py: the last call made: "run_cmd" or "with_chroot"
    cmd_in,      \* lib/common.py: the arguments of that call and what the host did
    cmd_before,  \* lib/common.py: the process before that call
    cmd_res,     \* lib/common.py: what that call returned (or that it raised)
    sys_op,      \* the last call made of a function of create_img_lib.py,
                 \*   lib/disk.py, lib/network.py or lib/system.py
    sys_in,      \* the argument of that call and what the host did during it
    sys_res,     \* what that call returned (or that it raised)
    sys_log,     \* the commands and file operations that call made, in order,
                 \*   each with its outcome
    sys_mounts,  \* how many times each of the bind-mount points is mounted
    sys_file,    \* the content of /etc/ssh/sshd_config
    sys_before   \* the content of /etc/ssh/sshd_config before that call

pipevars == <<disk, pc, old_status, new_status, img_file, loop_dev, calls, saves, ret, prev,
              host>>
libvars == <<lib_file, lib_op, lib_arg, lib_res, lib_env>>
cmdvars == <<proc, cmd_op, cmd_in, cmd_before, cmd_res>>
sysvars == <<sys_op, sys_in, sys_res, sys_log, sys_mounts, sys_file, sys_before>>
vars == <<disk, pc, old_status, new_status, img_file, loop_dev, calls, saves, ret, prev, host,
          lib_file, lib_op, lib_arg, lib_res, lib_env, proc, cmd_op, cmd_in, cmd_before, cmd_res,
          sys_op, sys_in, sys_res, sys_log, sys_mounts, sys_file, sys_before>>

(***************************************************************************)
(* Bounds                                                                  *)
(***************************************************************************)
\* number of loop devices the host can hand out (/dev/loop0 ..)
NumLoopDevs == 2

LoopDevs == {"/dev/loop" \o ToString(i) : i \in 0..(NumLoopDevs - 1)}

(***************************************************************************)
(* Snapshots: JSON objects, modelled as functions from keys to JSON values *)
(* (strings; JSON true is written "true").                                 *)
(***************************************************************************)
Keys == {"img_file", "loop_dev", "loop_dev_fmt", "mount_root", "mount_boot", "debootstrap"}

JsonTrue == "true"

EmptyDict == [k \in {} |-> JsonTrue]

DictSet(d, k, v) == [x \in (DOMAIN d) \cup {k} |-> IF x = k THEN v ELSE d[x]]

\* mutant: the key is not removed
DictPop_Keeps(d, k) == d

DictPop(d, k) == [x \in (DOMAIN d) \ {k} |-> d[x]]

\* the status file: missing, present but unreadable, text that is not JSON,
\* JSON whose top-level value is a list, or a JSON object
FileMissing == [kind |-> "missing", val |-> EmptyDict]
FileUnreadable == [kind |-> "unreadable", val |-> EmptyDict]
FileGarbage == [kind |-> "garbage", val |-> EmptyDict]
FileList == [kind |-> "list", val |-> EmptyDict]
FileDict(d) == [kind |-> "dict", val |-> d]

\* Python values: a dict, a list, None, or a str holding text (text says what
\* the text is: "dict" and "list" are JSON of that shape, "garbage" is not JSON)
\* (a str read from a command carries its characters in chars)
PyDict(d) == [type |-> "dict", text |-> "", val |-> d, chars |-> <<>>]
PyList == [type |-> "list", text |-> "", val |-> EmptyDict, chars |-> <<>>]
PyNone == [type |-> "NoneType", text |-> "", val |-> EmptyDict, chars |-> <<>>]
PyStr(text, d) == [type |-> "str", text |-> text, val |-> d, chars |-> <<>>]
PyText(cs) == [type |-> "str", text |-> "chars", val |-> EmptyDict, chars |-> cs]
PyBool(b) ==
    [type |-> "bool", text |-> IF b THEN "True" ELSE "False", val |-> EmptyDict, chars |-> <<>>]
PyInt(i) == [type |-> "int", text |-> ToString(i), val |-> EmptyDict, chars |-> <<>>]
\* stands for "the call raised": an exception left the function
PyRaised == [type |-> "raised", text |-> "", val |-> EmptyDict, chars |-> <<>>]

\* the snapshots main() can write
Snapshots ==
    UNION {{d \in [S -> {JsonTrue, "test.img"} \cup LoopDevs] :
              \A k \in S : d[k] \in (IF k = "img_file" THEN {"test.img"}
                                     ELSE IF k = "loop_dev" THEN LoopDevs
                                     ELSE {JsonTrue})} : S \in SUBSET Keys}

STATUS_FILENAME == ".status"

override == FALSE

(***************************************************************************)
(* create_img.py: status store                                             *)
(***************************************************************************)
\* load_status: {} unless the file exists and json.load succeeds
load_status(f) ==
    IF f.kind = "missing" THEN PyDict(EmptyDict)
    ELSE IF f.kind \in {"unreadable", "garbage"} THEN PyDict(EmptyDict)
    ELSE IF f.kind = "list" THEN PyList
    ELSE PyDict(f.val)

\* mutant: the loaded value is used without the type check
CheckedStatus_Unchecked(v) == v

\* main(), lines 365-368: a value that is not a dict is replaced by dict()
CheckedStatus(v) == IF v.type # "dict" THEN PyDict(EmptyDict) ELSE v

\* the outcomes of open(status_file, "w") followed by json.dump
SaveOutcomes == {"ok", "open_error", "write_error"}

\* save_status: the file after the call; open(.., "w") truncates, so an error
\* during the dump leaves a partial text
save_status(f, d, io) ==
    IF io = "ok" THEN FileDict(d)
    ELSE IF io = "open_error" THEN f
    ELSE FileGarbage

\* save_status has no return statement: the caller gets None either way
save_status_returns(io) == PyNone

\* mutant: a failed save turns the return value into 1
exit_script_SaveDecides(status_code, io) == IF io = "ok" THEN status_code ELSE 1

\* exit_script: saves and returns status_code whatever save_status did
exit_script(status_code, io) == status_code

(***************************************************************************)
(* create_img.py: main()                                                   *)
(***************************************************************************)
None == "<None>"

\* the machine: nothing attached, nothing mounted
FreshHost == [loops |-> {}, root |-> {}, boot |-> {}]

\* "losetup -f -P --show": an unused loop device is attached
HostAttach(h, dev) == [h EXCEPT !.loops = @ \cup {dev}]

\* "losetup -d"
HostDetach(h, dev) == [h EXCEPT !.loops = @ \ {dev}]

\* "mount <partition> <mnt_path>"
HostMount(h, part, at) ==
    IF at = "/mnt" THEN [h EXCEPT !.root = @ \cup {part}]
                   ELSE [h EXCEPT !.boot = @ \cup {part}]

\* "umount <partition>"
HostUnmount(h, part) == [h EXCEPT !.root = @ \ {part}, !.boot = @ \ {part}]

\* a command on a loop device can succeed only while the device is attached,
\* an unmount only while the partition is mounted
Attached(h, dev) == dev \in h.loops

Mounted(h, part) == part \in h.root \cup h.boot

\* one entry of the log of invoked actions
Call(fn, arg, at, ok) == [fn |-> fn, arg |-> arg, at |-> at, ok |-> ok]

\* the positions of main(), in program order
Stages == <<"img_file", "loop_dev", "loop_dev_fmt", "mount_root", "makedirs",
            "mount_boot", "debootstrap", "hostname", "locale", "keyboard", "apt",
            "unmount_boot", "unmount_root", "delete_loop">>

\* the stage conditions of main(), over the keys of old_status
\* mutant: the override test is inverted
SkipCreate_Inverted(old) == override /\ "img_file" \in DOMAIN old

SkipCreate(old) == ~override /\ "img_file" \in DOMAIN old

SkipAttach(old) == ~override /\ "loop_dev" \in DOMAIN old

\* mutant: the membership test is inverted
RunFormat_Inverted(old) == ~override /\ "loop_dev_fmt" \in DOMAIN old

RunFormat(old) == ~override /\ "loop_dev_fmt" \notin DOMAIN old

RunMountRoot(old) == "mount_root" \notin DOMAIN old

\* mutant: the test looks at the snapshot in progress
RunMountBoot_InProgress(old) == "mount_boot" \notin DOMAIN new_status

RunMountBoot(old) == "mount_boot" \notin DOMAIN old

RunDebootstrap(old) == ~override /\ "debootstrap" \notin DOMAIN old

boot_partition(dev) == dev \o "p1"

root_partition(dev) == dev \o "p2"

\* lines 479-480: an empty new_status is replaced by old_status
FinalStatus(ns, old) == IF Cardinality(DOMAIN ns) = 0 THEN old ELSE ns

\* return exit_script(code, STATUS_FILENAME, ns)
ExitScript(code, ns) ==
    \E io \in SaveOutcomes :
        /\ disk' = save_status(disk, ns, io)
        /\ saves' = Append(saves, [status |-> ns, io |-> io])
        /\ ret' = exit_script(code, io)
        /\ pc' = "done"

\* the run goes on to the next position
Continue(next) ==
    /\ pc' = next
    /\ UNCHANGED <<disk, saves, ret>>

\* lines 357-369: a run of main() begins
Start ==
    /\ pc \in {"idle", "done", "raised"}
    /\ old_status' = CheckedStatus(load_status(disk))
    /\ new_status' = EmptyDict
    /\ img_file' = ""
    /\ loop_dev' = ""
    /\ calls' = <<>>
    /\ saves' = <<>>
    /\ ret' = -1
    /\ prev' = [ran |-> pc # "idle", ret |-> ret, saves |-> saves]
    /\ pc' = "img_file"
    /\ UNCHANGED <<disk, host, libvars, cmdvars, sysvars>>

\* lines 371-380; old_status.keys() raises when old_status is not a dict
StageImgFile ==
    /\ pc = "img_file"
    /\ IF old_status.type # "dict"
       THEN /\ pc' = "raised"
            /\ UNCHANGED <<disk, new_status, img_file, calls, saves, ret>>
       ELSE IF SkipCreate(old_status.val)
       THEN /\ img_file' = old_status.val["img_file"]
            /\ new_status' = DictSet(new_status, "img_file", old_status.val["img_file"])
            /\ calls' = calls
            /\ Continue("loop_dev")
       ELSE \E ok \in BOOLEAN :
            /\ img_file' = "test.img"
            /\ calls' = Append(calls, Call("create_imgfile", "test.img", "", ok))
            /\ IF ok
               THEN /\ new_status' = DictSet(new_status, "img_file", "test.img")
                    /\ Continue("loop_dev")
               ELSE /\ new_status' = new_status
                    /\ ExitScript(1, new_status)
    /\ UNCHANGED <<old_status, loop_dev, prev, host, libvars, cmdvars, sysvars>>

\* mutant: a skipped attach stage takes the first loop device, not the recorded one
StageLoopDev_FirstDevice ==
    /\ pc = "loop_dev"
    /\ IF SkipAttach(old_status.val)
       THEN /\ loop_dev' = "/dev/loop0"
            /\ new_status' = DictSet(new_status, "loop_dev", "/dev/loop0")
            /\ calls' = calls
            /\ host' = host
            /\ Continue("loop_dev_fmt")
       ELSE \E r \in (LoopDevs \ host.loops) \cup {None} :
            /\ loop_dev' = r
            /\ host' = IF r # None THEN HostAttach(host, r) ELSE host
            /\ calls' = Append(calls, Call("img_file_to_loop_dev", img_file, "", r # None))
            /\ IF r # None
               THEN /\ new_status' = DictSet(new_status, "loop_dev", r)
                    /\ Continue("loop_dev_fmt")
               ELSE /\ new_status' = new_status
                    /\ ExitScript(1, new_status)
    /\ UNCHANGED <<old_status, img_file, prev, libvars, cmdvars, sysvars>>

\* lines 382-397
StageLoopDev ==
    /\ pc = "loop_dev"
    /\ IF SkipAttach(old_status.val)
       THEN /\ loop_dev' = old_status.val["loop_dev"]
            /\ new_status' = DictSet(new_status, "loop_dev", old_status.val["loop_dev"])
            /\ calls' = calls
            /\ host' = host
            /\ Continue("loop_dev_fmt")
       ELSE \E r \in (LoopDevs \ host.loops) \cup {None} :
            /\ loop_dev' = r
            /\ host' = IF r # None THEN HostAttach(host, r) ELSE host
            /\ calls' = Append(calls, Call("img_file_to_loop_dev", img_file, "", r # None))
            /\ IF r # None
               THEN /\ new_status' = DictSet(new_status, "loop_dev", r)
                    /\ Continue("loop_dev_fmt")
               ELSE /\ new_status' = new_status
                    /\ ExitScript(1, new_status)
    /\ UNCHANGED <<old_status, img_file, prev, libvars, cmdvars, sysvars>>

\* lines 399-406
StageFormat ==
    /\ pc = "loop_dev_fmt"
    /\ IF RunFormat(old_status.val)
       THEN \E ok \in BOOLEAN :
            /\ ok => Attached(host, loop_dev)
            /\ calls' = Append(calls, Call("format_loop_dev", loop_dev, "", ok))
            /\ IF ok
               THEN /\ new_status' = DictSet(new_status, "loop_dev_fmt", JsonTrue)
                    /\ Continue("mount_root")
               ELSE /\ new_status' = new_status
                    /\ ExitScript(1, new_status)
       ELSE /\ new_status' = DictSet(new_status, "loop_dev_fmt", JsonTrue)
            /\ calls' = calls
            /\ Continue("mount_root")
    /\ UNCHANGED <<old_status, img_file, loop_dev, prev, host, libvars, cmdvars, sysvars>>

\* mutant: a failed root mount does not return
StageMountRoot_NoAbort ==
    /\ pc = "mount_root"
    /\ IF RunMountRoot(old_status.val)
       THEN \E ok \in BOOLEAN :
            /\ ok => Attached(host, loop_dev)
            /\ host' = IF ok THEN HostMount(host, root_partition(loop_dev), "/mnt") ELSE host
            /\ calls' = Append(calls, Call("mount_device", root_partition(loop_dev), "/mnt", ok))
            /\ new_status' = IF ok THEN DictSet(new_status, "mount_root", JsonTrue) ELSE new_status
            /\ Continue("makedirs")
       ELSE /\ new_status' = DictSet(new_status, "mount_root", JsonTrue)
            /\ calls' = calls
            /\ host' = host
            /\ Continue("makedirs")
    /\ UNCHANGED <<old_status, img_file, loop_dev, prev, libvars, cmdvars, sysvars>>

\* lines 408-415
StageMountRoot ==
    /\ pc = "mount_root"
    /\ IF RunMountRoot(old_status.val)
       THEN \E ok \in BOOLEAN :
            /\ ok => Attached(host, loop_dev)
            /\ host' = IF ok THEN HostMount(host, root_partition(loop_dev), "/mnt") ELSE host
            /\ calls' = Append(calls, Call("mount_device", root_partition(loop_dev), "/mnt", ok))
            /\ IF ok
               THEN /\ new_status' = DictSet(new_status, "mount_root", JsonTrue)
                    /\ Continue("makedirs")
               ELSE /\ new_status' = new_status
                    /\ ExitScript(1, new_status)
       ELSE /\ new_status' = DictSet(new_status, "mount_root", JsonTrue)
            /\ calls' = calls
            /\ host' = host
            /\ Continue("makedirs")
    /\ UNCHANGED <<old_status, img_file, loop_dev, prev, libvars, cmdvars, sysvars>>

\* mutant: the OSError of os.makedirs is swallowed
MakeBootDir_Swallows ==
    /\ pc = "makedirs"
    /\ \E ok \in BOOLEAN :
        /\ calls' = Append(calls, Call("os.makedirs", "/mnt/boot/firmware", "", ok))
        /\ Continue("mount_boot")
    /\ UNCHANGED <<old_status, new_status, img_file, loop_dev, prev, host, libvars, cmdvars, sysvars>>

\* lines 417-421: os.makedirs("/mnt/boot/firmware"); an OSError returns 1
MakeBootDir ==
    /\ pc = "makedirs"
    /\ \E ok \in BOOLEAN :
        /\ calls' = Append(calls, Call("os.makedirs", "/mnt/boot/firmware", "", ok))
        /\ IF ok
           THEN Continue("mount_boot")
           ELSE /\ ret' = 1
                /\ pc' = "done"
                /\ UNCHANGED <<disk, saves>>
    /\ UNCHANGED <<old_status, new_status, img_file, loop_dev, prev, host, libvars, cmdvars, sysvars>>

\* lines 423-430
StageMountBoot ==
    /\ pc = "mount_boot"
    /\ IF RunMountBoot(old_status.val)
       THEN \E ok \in BOOLEAN :
            /\ ok => Attached(host, loop_dev)
            /\ host' = IF ok THEN HostMount(host, boot_partition(loop_dev), "/mnt/boot/firmware") ELSE host
            /\ calls' = Append(calls, Call("mount_device", boot_partition(loop_dev),
                                           "/mnt/boot/firmware", ok))
            /\ IF ok
               THEN /\ new_status' = DictSet(new_status, "mount_boot", JsonTrue)
                    /\ Continue("debootstrap")
               ELSE /\ new_status' = new_status
                    /\ ExitScript(1, new_status)
       ELSE /\ new_status' = DictSet(new_status, "mount_boot", JsonTrue)
            /\ calls' = calls
            /\ host' = host
            /\ Continue("debootstrap")
    /\ UNCHANGED <<old_status, img_file, loop_dev, prev, libvars, cmdvars, sysvars>>

\* lines 432-439
StageDebootstrap ==
    /\ pc = "debootstrap"
    /\ IF RunDebootstrap(old_status.val)
       THEN \E ok \in BOOLEAN :
            /\ calls' = Append(calls, Call("do_debootstrap", "/mnt", "", ok))
            /\ IF ok
               THEN /\ new_status' = DictSet(new_status, "debootstrap", JsonTrue)
                    /\ Continue("hostname")
               ELSE /\ new_status' = new_status
                    /\ ExitScript(1, new_status)
       ELSE /\ new_status' = DictSet(new_status, "debootstrap", JsonTrue)
            /\ calls' = calls
            /\ Continue("hostname")
    /\ UNCHANGED <<old_status, img_file, loop_dev, prev, host, libvars, cmdvars, sysvars>>

\* lines 441-452: a configuration write; the writer catches every exception
\* and returns False
Configure(at, fn, next) ==
    /\ pc = at
    /\ \E ok \in BOOLEAN :
        /\ calls' = Append(calls, Call(fn, "/mnt", "", ok))
        /\ IF ok THEN Continue(next) ELSE ExitScript(1, new_status)
    /\ UNCHANGED <<old_status, new_status, img_file, loop_dev, prev, host, libvars, cmdvars, sysvars>>

ConfigureHostname == Configure("hostname", "configure_hostname", "locale")

ConfigureLocale == Configure("locale", "configure_locale", "keyboard")

ConfigureKeyboard == Configure("keyboard", "configure_keyboard", "apt")

ConfigureApt == Configure("apt", "configure_apt", "unmount_boot")

\* mutant: the two unmounts are written in the other order
UnmountBoot_RootFirst ==
    /\ pc = "unmount_boot"
    /\ Mounted(host, root_partition(loop_dev))
    /\ Mounted(host, boot_partition(loop_dev))
    /\ host' = HostUnmount(HostUnmount(host, root_partition(loop_dev)), boot_partition(loop_dev))
    /\ calls' = calls \o <<Call("unmount_device", root_partition(loop_dev), "", TRUE),
                           Call("unmount_device", boot_partition(loop_dev), "", TRUE)>>
    /\ new_status' = DictPop(DictPop(new_status, "mount_root"), "mount_boot")
    /\ Continue("delete_loop")
    /\ UNCHANGED <<old_status, img_file, loop_dev, prev, libvars, cmdvars, sysvars>>

\* mutant: the boot unmount is left out when this run did not mount it
UnmountBoot_IfMountedHere ==
    /\ pc = "unmount_boot"
    /\ IF "mount_boot" \in DOMAIN old_status.val
       THEN /\ calls' = calls
            /\ host' = host
            /\ new_status' = DictPop(new_status, "mount_boot")
            /\ Continue("unmount_root")
       ELSE \E ok \in BOOLEAN :
            /\ ok => Mounted(host, boot_partition(loop_dev))
            /\ host' = IF ok THEN HostUnmount(host, boot_partition(loop_dev)) ELSE host
            /\ calls' = Append(calls, Call("unmount_device", boot_partition(loop_dev), "", ok))
            /\ IF ok
               THEN /\ new_status' = DictPop(new_status, "mount_boot")
                    /\ Continue("unmount_root")
               ELSE /\ new_status' = new_status
                    /\ ExitScript(1, new_status)
    /\ UNCHANGED <<old_status, img_file, loop_dev, prev, libvars, cmdvars, sysvars>>

\* lines 454-459
UnmountBoot ==
    /\ pc = "unmount_boot"
    /\ \E ok \in BOOLEAN :
        /\ ok => Mounted(host, boot_partition(loop_dev))
        /\ host' = IF ok THEN HostUnmount(host, boot_partition(loop_dev)) ELSE host
        /\ calls' = Append(calls, Call("unmount_device", boot_partition(loop_dev), "", ok))
        /\ IF ok
           THEN /\ new_status' = DictPop(new_status, "mount_boot")
                /\ Continue("unmount_root")
           ELSE /\ new_status' = new_status
                /\ ExitScript(1, new_status)
    /\ UNCHANGED <<old_status, img_file, loop_dev, prev, libvars, cmdvars, sysvars>>

\* mutant: the mount_root marker is not cleared after the unmount
UnmountRoot_NoPop ==
    /\ pc = "unmount_root"
    /\ \E ok \in BOOLEAN :
        /\ ok => Mounted(host, root_partition(loop_dev))
        /\ host' = IF ok THEN HostUnmount(host, root_partition(loop_dev)) ELSE host
        /\ calls' = Append(calls, Call("unmount_device", root_partition(loop_dev), "", ok))
        /\ new_status' = new_status
        /\ IF ok THEN Continue("delete_loop") ELSE ExitScript(1, new_status)
    /\ UNCHANGED <<old_status, img_file, loop_dev, prev, libvars, cmdvars, sysvars>>

\* lines 461-466
UnmountRoot ==
    /\ pc = "unmount_root"
    /\ \E ok \in BOOLEAN :
        /\ ok => Mounted(host, root_partition(loop_dev))
        /\ host' = IF ok THEN HostUnmount(host, root_partition(loop_dev)) ELSE host
        /\ calls' = Append(calls, Call("unmount_device", root_partition(loop_dev), "", ok))
        /\ IF ok
           THEN /\ new_status' = DictPop(new_status, "mount_root")
                /\ Continue("delete_loop")
           ELSE /\ new_status' = new_status
                /\ ExitScript(1, new_status)
    /\ UNCHANGED <<old_status, img_file, loop_dev, prev, libvars, cmdvars, sysvars>>

\* lines 468-481: delete the loop device, clear its marker, save, return 0
DeleteLoopDev ==
    /\ pc = "delete_loop"
    /\ \E ok \in BOOLEAN :
        /\ ok => Attached(host, loop_dev)
        /\ host' = IF ok THEN HostDetach(host, loop_dev) ELSE host
        /\ calls' = Append(calls, Call("delete_loop_dev", loop_dev, "", ok))
        /\ IF ok
           THEN /\ new_status' = FinalStatus(DictPop(new_status, "loop_dev"), old_status.val)
                /\ ExitScript(0, FinalStatus(DictPop(new_status, "loop_dev"), old_status.val))
           ELSE /\ new_status' = new_status
                /\ ExitScript(1, new_status)
    /\ UNCHANGED <<old_status, img_file, loop_dev, prev, libvars, cmdvars, sysvars>>

(***************************************************************************)
(* lib/common.py: file reader / writer and status store                    *)
(***************************************************************************)
ReadOutcomes == {"ok", "io_error"}

WriteOutcomes == {"ok", "open_error", "write_error"}

\* read_file: the text of the file, None when open() or read() raises
read_file(f, io) ==
    IF io # "ok" \/ f.kind \in {"missing", "unreadable"} THEN PyNone
    ELSE PyStr(f.kind, f.val)

\* mutant: an error after open() is not reported
write_file_Swallows(f, contents, io) ==
    IF io = "open_error" THEN [file |-> f, res |-> PyBool(FALSE)]
    ELSE IF io = "ok" /\ contents.type = "str"
    THEN [file |-> [kind |-> contents.text, val |-> contents.val], res |-> PyBool(TRUE)]
    ELSE [file |-> FileGarbage, res |-> PyBool(TRUE)]

\* write_file, mode "w": the file after the call and the boolean returned;
\* open() truncates the file, f.write raises on contents that are not a str
\* (TypeError) or on an I/O error, and every exception gives False
write_file(f, contents, io) ==
    IF io = "open_error" THEN [file |-> f, res |-> PyBool(FALSE)]
    ELSE IF io = "ok" /\ contents.type = "str"
    THEN [file |-> [kind |-> contents.text, val |-> contents.val], res |-> PyBool(TRUE)]
    ELSE [file |-> FileGarbage, res |-> PyBool(FALSE)]

\* json.loads: the parsed value, JSONDecodeError on text that is not JSON
json_loads(s) ==
    IF s.text = "dict" THEN PyDict(s.val)
    ELSE IF s.text = "list" THEN PyList
    ELSE PyRaised

json_dumps(d) == PyStr("dict", d)

\* lib.common.load_status
lib_load_status(f, io) ==
    IF read_file(f, io) # PyNone THEN json_loads(read_file(f, io)) ELSE PyNone

\* lib.common.save_status
lib_save_status(f, d, io) == write_file(f, json_dumps(d), io)

\* mutant: the result of save_status is not looked at
lib_exit_script_Ignores(status_code, f, d, io) ==
    [file |-> lib_save_status(f, d, io).file, res |-> PyInt(status_code)]

\* lib.common.exit_script: status_code if the save succeeded, else 1
lib_exit_script(status_code, f, d, io) ==
    [file |-> lib_save_status(f, d, io).file,
     res |-> IF lib_save_status(f, d, io).res = PyBool(TRUE) THEN PyInt(status_code) ELSE PyInt(1)]

\* the snapshots handed to the status store: those over the first three keys
LibKeys == {"img_file", "loop_dev", "loop_dev_fmt"}

LibSnapshots == {d \in Snapshots : DOMAIN d \subseteq LibKeys}

LibArg(d, code) == [status |-> d, code |-> code]

LibEnv(io, contents) == [io |-> io, contents |-> contents]

\* the contents handed to write_file: a snapshot as JSON, other text, None
LibContents == {json_dumps(d) : d \in LibSnapshots} \cup {PyStr("garbage", EmptyDict), PyNone}

\* a call of read_file on the status file
LibReadFile ==
    /\ \E io \in ReadOutcomes :
        /\ lib_res' = read_file(lib_file, io)
        /\ lib_env' = LibEnv(io, PyNone)
    /\ lib_arg' = LibArg(EmptyDict, 0)
    /\ lib_op' = "read_file"
    /\ UNCHANGED <<lib_file, pipevars, cmdvars, sysvars>>

\* a call of write_file on the status file
LibWriteFile ==
    /\ \E contents \in LibContents, io \in WriteOutcomes :
        /\ lib_file' = write_file(lib_file, contents, io).file
        /\ lib_res' = write_file(lib_file, contents, io).res
        /\ lib_env' = LibEnv(io, contents)
    /\ lib_arg' = LibArg(EmptyDict, 0)
    /\ lib_op' = "write_file"
    /\ UNCHANGED <<pipevars, cmdvars, sysvars>>

\* a call of save_status of create_img.py on the status file
ScriptSaveStatus ==
    /\ \E d \in LibSnapshots, io \in SaveOutcomes :
        /\ lib_file' = save_status(lib_file, d, io)
        /\ lib_res' = save_status_returns(io)
        /\ lib_arg' = LibArg(d, 0)
        /\ lib_env' = LibEnv(io, json_dumps(d))
    /\ lib_op' = "create_img.save_status"
    /\ UNCHANGED <<pipevars, cmdvars, sysvars>>

LibLoadStatus ==
    /\ \E io \in ReadOutcomes :
        /\ lib_res' = lib_load_status(lib_file, io)
        /\ lib_arg' = LibArg(EmptyDict, 0)
        /\ lib_env' = LibEnv(io, PyNone)
    /\ lib_op' = "load_status"
    /\ UNCHANGED <<lib_file, pipevars, cmdvars, sysvars>>

LibSaveStatus ==
    /\ \E d \in LibSnapshots, io \in WriteOutcomes :
        /\ lib_file' = lib_save_status(lib_file, d, io).file
        /\ lib_res' = lib_save_status(lib_file, d, io).res
        /\ lib_arg' = LibArg(d, 0)
        /\ lib_env' = LibEnv(io, json_dumps(d))
    /\ lib_op' = "save_status"
    /\ UNCHANGED <<pipevars, cmdvars, sysvars>>

LibExitScript ==
    /\ \E d \in LibSnapshots, code \in {0, 1}, io \in WriteOutcomes :
        /\ lib_file' = lib_exit_script(code, lib_file, d, io).file
        /\ lib_res' = lib_exit_script(code, lib_file, d, io).res
        /\ lib_arg' = LibArg(d, code)
        /\ lib_env' = LibEnv(io, json_dumps(d))
    /\ lib_op' = "exit_script"
    /\ UNCHANGED <<pipevars, cmdvars, sysvars>>

(***************************************************************************)
(* lib/common.py: Chroot and run_cmd                                       *)
(***************************************************************************)
\* most descriptors a sequence of calls may leave open
MaxFds == 2

\* longest output of a command, in characters
MaxOut == 3

Chars == {"a", " ", "\n"}

Whitespace == {" ", "\n"}

Outputs == UNION {[1..n -> Chars] : n \in 0..MaxOut}

\* the directory handed to Chroot
ChrootDir == "/mnt"

\* what the host does to the calls of Chroot.__enter__: all succeed, or
\* os.open, os.chdir or os.chroot raises OSError
EnterOutcomes == {"ok", "open_error", "chdir_error", "chroot_error"}

\* subprocess.run: the shell runs the command, or cannot be started (OSError)
LaunchOutcomes == {"ok", "oserror"}

FreshProc == [root |-> "/", cwd |-> "/work", fds |-> 0]

\* Chroot.__init__
Chroot_init(p, directory) ==
    [directory |-> directory, work_dir |-> p.cwd, fs_root |-> None]

\* Chroot.__enter__: os.open("/"), os.chdir(directory), os.chroot(directory);
\* the first call that raises ends it
Chroot_enter(p, c, out) ==
    IF out = "open_error" THEN [proc |-> p, chroot |-> c, raised |-> TRUE]
    ELSE IF out = "chdir_error"
    THEN [proc |-> [p EXCEPT !.fds = @ + 1],
          chroot |-> [c EXCEPT !.fs_root = p.root], raised |-> TRUE]
    ELSE IF out = "chroot_error"
    THEN [proc |-> [p EXCEPT !.fds = @ + 1, !.cwd = c.directory],
          chroot |-> [c EXCEPT !.fs_root = p.root], raised |-> TRUE]
    ELSE [proc |-> [p EXCEPT !.fds = @ + 1, !.cwd = c.directory, !.root = c.directory],
          chroot |-> [c EXCEPT !.fs_root = p.root], raised |-> FALSE]

\* Chroot.__exit__: os.fchdir(fs_root), os.chroot("."), os.close(fs_root),
\* os.chdir(work_dir)
Chroot_exit(p, c) == [root |-> c.fs_root, cwd |-> c.work_dir, fds |-> p.fds - 1]

\* with Chroot(directory): body -- __exit__ runs only if __enter__ returned,
\* and returns False, so an exception of the body goes on
with_chroot(p, directory, enter, body_raises) ==
    IF Chroot_enter(p, Chroot_init(p, directory), enter).raised
    THEN [proc |-> Chroot_enter(p, Chroot_init(p, directory), enter).proc,
          ran |-> FALSE, raised |-> TRUE]
    ELSE [proc |-> Chroot_exit(Chroot_enter(p, Chroot_init(p, directory), enter).proc,
                               Chroot_enter(p, Chroot_init(p, directory), enter).chroot),
          ran |-> TRUE, raised |-> body_raises]

\* str.strip(): leading and trailing whitespace removed
RECURSIVE lstrip(_)
lstrip(cs) == IF cs # <<>> /\ Head(cs) \in Whitespace THEN lstrip(Tail(cs)) ELSE cs

RECURSIVE rstrip(_)
rstrip(cs) ==
    IF cs # <<>> /\ cs[Len(cs)] \in Whitespace THEN rstrip(SubSeq(cs, 1, Len(cs) - 1)) ELSE cs

strip(cs) == rstrip(lstrip(cs))

\* mutant: a failed command still gives its output when output is asked for
run_cmd_result_Partial(return_output, rc, stdout) ==
    IF return_output THEN PyText(strip(stdout)) ELSE PyBool(rc = 0)

\* lines 106-117 of run_cmd: the value made from the completed process
run_cmd_result(return_output, rc, stdout) ==
    IF rc # 0 THEN (IF return_output THEN PyNone ELSE PyBool(FALSE))
    ELSE IF return_output THEN PyText(strip(stdout))
    ELSE PyBool(TRUE)

\* what the host does during one call: e.enter, e.launch, e.rc, e.stdout
CmdEnv(enter, launch, rc, stdout) ==
    [enter |-> enter, launch |-> launch, rc |-> rc, stdout |-> stdout]

\* run_cmd: the process after the call and the value returned
run_cmd(p, return_output, chroot, e) ==
    IF chroot # ""
    THEN IF with_chroot(p, chroot, e.enter, e.launch # "ok").raised
         THEN [proc |-> with_chroot(p, chroot, e.enter, e.launch # "ok").proc, res |-> PyRaised]
         ELSE [proc |-> with_chroot(p, chroot, e.enter, e.launch # "ok").proc,
               res |-> run_cmd_result(return_output, e.rc, e.stdout)]
    ELSE IF e.launch # "ok" THEN [proc |-> p, res |-> PyRaised]
    ELSE [proc |-> p, res |-> run_cmd_result(return_output, e.rc, e.stdout)]

CmdIn(return_output, chroot, e, body_raises) ==
    [return_output |-> return_output, chroot |-> chroot, env |-> e, body_raises |-> body_raises]

\* a call of run_cmd
RunCmd ==
    /\ \E return_output \in BOOLEAN, chroot \in {"", ChrootDir}, enter \in EnterOutcomes,
          launch \in LaunchOutcomes, rc \in {0, 1}, stdout \in Outputs :
        /\ chroot = "" => enter = "ok"
        /\ (enter # "ok" \/ launch # "ok") => (rc = 1 /\ stdout = <<>>)
        /\ \E r \in {run_cmd(proc, return_output, chroot, CmdEnv(enter, launch, rc, stdout))} :
              /\ r.proc.fds <= MaxFds
              /\ proc' = r.proc
              /\ cmd_res' = r.res
        /\ cmd_in' = CmdIn(return_output, chroot, CmdEnv(enter, launch, rc, stdout), FALSE)
    /\ cmd_op' = "run_cmd"
    /\ cmd_before' = proc
    /\ UNCHANGED <<pipevars, libvars, sysvars>>

\* a statement "with Chroot(directory): body" whose body completes or raises
WithChroot ==
    /\ \E enter \in EnterOutcomes, body_raises \in BOOLEAN :
        /\ enter # "ok" => ~body_raises
        /\ with_chroot(proc, ChrootDir, enter, body_raises).proc.fds <= MaxFds
        /\ proc' = with_chroot(proc, ChrootDir, enter, body_raises).proc
        /\ cmd_res' = IF with_chroot(proc, ChrootDir, enter, body_raises).raised
                      THEN PyRaised ELSE PyNone
        /\ cmd_in' = CmdIn(FALSE, ChrootDir, CmdEnv(enter, "ok", 0, <<>>), body_raises)
    /\ cmd_op' = "with_chroot"
    /\ cmd_before' = proc
    /\ UNCHANGED <<pipevars, libvars, sysvars>>

CmdIdle ==
    /\ proc = FreshProc
    /\ cmd_op = "none"
    /\ cmd_in = CmdIn(FALSE, "", CmdEnv("ok", "ok", 0, <<>>), FALSE)
    /\ cmd_before = FreshProc
    /\ cmd_res = PyNone

(***************************************************************************)
(* /etc/ssh/sshd_config as read_file and write_file of lib/common.py see it *)
(***************************************************************************)
\* most lines of the file
MaxLines == 2

\* /etc/ssh/sshd_config: missing, or a text of lines
SshdMissing == [exists |-> FALSE, lines |-> <<>>]

SshdText(lines) == [exists |-> TRUE, lines |-> lines]

\* the lines the file is made of
SshdLines == {"PermitRootLogin no", "#PermitRootLogin prohibit-password",
              "PermitRootLogin yes", "Port 22"}

SshdFiles ==
    {SshdMissing} \cup {SshdText(l) : l \in UNION {[1..n -> SshdLines] : n \in 0..MaxLines}}

\* read_file on the text file: the lines read; none says it returned None
text_read_file(f, io) ==
    IF io # "ok" \/ ~f.exists THEN [none |-> TRUE, lines |-> <<>>]
    ELSE [none |-> FALSE, lines |-> f.lines]

\* write_file on the text file, mode "w": open() truncates, an error gives False
text_write_file(f, lines, io) ==
    IF io = "open_error" THEN [file |-> f, res |-> PyBool(FALSE)]
    ELSE IF io = "ok" THEN [file |-> SshdText(lines), res |-> PyBool(TRUE)]
    ELSE [file |-> SshdText(<<>>), res |-> PyBool(FALSE)]

(***************************************************************************)
(* create_img_lib.py: install_kernel                                       *)
(***************************************************************************)
\* most mounts stacked on one mount point
MaxStack == 2

\* one command or file operation of a call, with its outcome
Step(cmd, out) == [cmd |-> cmd, out |-> out]

SysIn(arg, env, data) == [arg |-> arg, env |-> env, data |-> data]

\* lines 375-380: the bind mounts, in the order of the "and" chain
BindPoints == <<"/mnt/proc", "/mnt/sys", "/mnt/dev", "/mnt/dev/pts">>

\* lines 395-398: the unmounts, in the order written
UnbindOrder == <<"/mnt/proc", "/mnt/sys", "/mnt/dev/pts", "/mnt/dev">>

NoMounts == [p \in {BindPoints[i] : i \in 1..4} |-> 0]

\* "mount -o bind": a failing mount changes nothing
kernel_mount_device(m, mnt_path, out) ==
    IF out = "ok" THEN [m EXCEPT ![mnt_path] = @ + 1] ELSE m

\* "umount": a failing unmount changes nothing
kernel_unmount_device(m, path, out) ==
    IF out = "ok" THEN [m EXCEPT ![path] = @ - 1] ELSE m

\* the host can give this outcome: an unmount succeeds only on a mounted
\* point with nothing mounted below it
CanMount(m, mnt_path, out) == out = "ok" => m[mnt_path] < MaxStack

CanUnmount(m, path, out) ==
    out = "ok" => (m[path] > 0 /\ (path = "/mnt/dev" => m["/mnt/dev/pts"] = 0))

\* lines 375-381: mount_device(..) and mount_device(..) and ..; the first
\* that returns False ends the chain
RECURSIVE MountAll(_, _, _, _, _)
MountAll(m, log, i, e, possible) ==
    IF i > 4 THEN [mounts |-> m, log |-> log, ok |-> TRUE, possible |-> possible]
    ELSE IF e[i] = "ok"
    THEN MountAll(kernel_mount_device(m, BindPoints[i], e[i]),
                  Append(log, Step("mount " \o BindPoints[i], e[i])), i + 1, e,
                  possible /\ CanMount(m, BindPoints[i], e[i]))
    ELSE [mounts |-> m, log |-> Append(log, Step("mount " \o BindPoints[i], e[i])),
          ok |-> FALSE, possible |-> possible]

\* lines 395-398: the four unmount_device calls, results not looked at
RECURSIVE UnmountAll(_, _, _, _, _)
UnmountAll(m, log, i, e, possible) ==
    IF i > 4 THEN [mounts |-> m, log |-> log, possible |-> possible]
    ELSE UnmountAll(kernel_unmount_device(m, UnbindOrder[i], e[5 + i]),
                    Append(log, Step("umount " \o UnbindOrder[i], e[5 + i])), i + 1, e,
                    possible /\ CanUnmount(m, UnbindOrder[i], e[5 + i]))

\* install_kernel: e[1..4] the bind mounts, e[5] the kernel install,
\* e[6..9] the unmounts
install_kernel(m, e) ==
    LET a == MountAll(m, <<>>, 1, e, TRUE)
    IN IF ~a.ok
       THEN [mounts |-> a.mounts, log |-> a.log, res |-> PyBool(FALSE),
             possible |-> a.possible]
       ELSE LET u == UnmountAll(a.mounts, Append(a.log, Step("apt-get install", e[5])),
                                1, e, a.possible)
            IN [mounts |-> u.mounts, log |-> u.log, res |-> PyBool(e[5] = "ok"),
                possible |-> u.possible]

SysBefore == [file |-> sys_file, mounts |-> sys_mounts]

\* a call of install_kernel("/mnt")
InstallKernel ==
    /\ \E e \in [1..9 -> {"ok", "fail"}] :
        LET r == install_kernel(sys_mounts, e)
        IN /\ r.possible
           /\ \A j \in 1..9 : j > Len(r.log) => e[j] = "fail"
           /\ sys_mounts' = r.mounts
           /\ sys_log' = r.log
           /\ sys_res' = r.res
           /\ sys_in' = SysIn("/mnt", e, <<>>)
    /\ sys_op' = "install_kernel"
    /\ sys_before' = SysBefore
    /\ UNCHANGED <<sys_file, pipevars, libvars, cmdvars>>

(***************************************************************************)
(* lib/disk.py: losetup_create, losetup_list, format_partition             *)
(***************************************************************************)
\* most loop devices "losetup -l -J" lists
MaxListed == 2

\* what the host does to one run_cmd call of these functions: the command
\* exits with 0, exits with another code, or the shell cannot be started
CmdOutcomes == {"ok", "fail", "raise"}

\* run_cmd(cmd) outside a chroot under the outcome out
RunOut(out, return_output, stdout) ==
    run_cmd(FreshProc, return_output, "",
            CmdEnv("ok", IF out = "raise" THEN "oserror" ELSE "ok",
                   IF out = "ok" THEN 0 ELSE 1, stdout)).res

\* mutant: one more filesystem type is let through
SUPPORTED_FSTYPES_More == <<"vfat", "ext4", "ext3">>

SUPPORTED_FSTYPES == <<"vfat", "ext4">>

\* the fs_type arguments tried
FsTypes == {"vfat", "ext4", "ext3", "ntfs", ""}

Partitions == {d \o "p1" : d \in LoopDevs} \cup {d \o "p2" : d \in LoopDevs}

\* format_partition: the commands run and the value returned
format_partition(dev_path, fs_type, out) ==
    IF fs_type \notin {SUPPORTED_FSTYPES[i] : i \in DOMAIN SUPPORTED_FSTYPES}
    THEN [log |-> <<>>, res |-> PyBool(FALSE)]
    ELSE [log |-> <<Step("mkfs." \o fs_type \o " " \o dev_path, out)>>,
          res |-> RunOut(out, FALSE, <<>>)]

\* the image files behind the listed loop devices
BackFiles == {"/work/test.img", "/work/other.img", "/work/old-test.img"}

\* file_name in loopdev["back-file"]: substring test on str
InBackFile(file_name, back_file) ==
    <<file_name, back_file>> \in {<<"test.img", "/work/test.img">>,
                                  <<"test.img", "/work/old-test.img">>,
                                  <<"other.img", "/work/other.img">>}

\* the file_name arguments tried
FileNames == {"test.img", "other.img"}

LoopEntry(name, back_file) == [name |-> name, back_file |-> back_file]

\* what "losetup -l -J" can list
Listings ==
    UNION {[1..n -> {LoopEntry(d, f) : d \in LoopDevs, f \in BackFiles}] : n \in 0..MaxListed}

\* what the host does to the "losetup -l -J" call: JSON of the listing, no
\* JSON on stdout, a non-zero exit code, or the shell cannot be started
ListOutcomes == {"ok", "garbage", "fail", "raise"}

\* losetup_list: run_cmd(..., return_output=True).strip() then json.loads,
\* every exception caught; none says the function returned None
losetup_list(out, listing) ==
    IF out = "ok" THEN [none |-> FALSE, loopdevices |-> listing]
    ELSE [none |-> TRUE, loopdevices |-> <<>>]

\* lines 95-99: the name of the first listed device whose back-file holds
\* file_name, None when there is none
RECURSIVE FirstMatch(_, _)
FirstMatch(file_name, devs) ==
    IF devs = <<>> THEN PyNone
    ELSE IF InBackFile(file_name, Head(devs).back_file)
    THEN PyStr(Head(devs).name, EmptyDict)
    ELSE FirstMatch(file_name, Tail(devs))

\* losetup_create; subscripting the None of a failed losetup_list raises
\* TypeError, which nothing catches
losetup_create(file_name, create, list, listing) ==
    IF RunOut(create, FALSE, <<>>) = PyRaised
    THEN [log |-> <<Step("udisksctl loop-setup", create)>>, res |-> PyRaised]
    ELSE IF RunOut(create, FALSE, <<>>) # PyBool(TRUE)
    THEN [log |-> <<Step("udisksctl loop-setup", create)>>, res |-> PyNone]
    ELSE [log |-> <<Step("udisksctl loop-setup", create), Step("losetup -l -J", list)>>,
          res |-> IF losetup_list(list, listing).none THEN PyRaised
                  ELSE FirstMatch(file_name, losetup_list(list, listing).loopdevices)]

\* a call of losetup_create
LosetupCreate ==
    /\ \E file_name \in FileNames, create \in CmdOutcomes, list \in ListOutcomes,
          listing \in Listings :
        /\ create # "ok" => list = "fail"
        /\ list # "ok" => listing = <<>>
        /\ sys_log' = losetup_create(file_name, create, list, listing).log
        /\ sys_res' = losetup_create(file_name, create, list, listing).res
        /\ sys_in' = SysIn(file_name, <<create, list>>, listing)
    /\ sys_op' = "losetup_create"
    /\ sys_before' = SysBefore
    /\ UNCHANGED <<sys_mounts, sys_file, pipevars, libvars, cmdvars>>

\* a call of format_partition
FormatPartition ==
    /\ \E dev_path \in Partitions, fs_type \in FsTypes, out \in CmdOutcomes :
        /\ sys_log' = format_partition(dev_path, fs_type, out).log
        /\ sys_res' = format_partition(dev_path, fs_type, out).res
        /\ sys_in' = SysIn(fs_type, <<out>>, <<dev_path>>)
    /\ sys_op' = "format_partition"
    /\ sys_before' = SysBefore
    /\ UNCHANGED <<sys_mounts, sys_file, pipevars, libvars, cmdvars>>

(***************************************************************************)
(* lib/system.py: configure_sshd                                           *)
(***************************************************************************)
\* the lines matched by ^#?\s*PermitRootLogin\s+(no|prohibit-password)$
PermitPattern(line) ==
    line \in {"PermitRootLogin no", "#PermitRootLogin prohibit-password"}

\* re.sub(pattern, "PermitRootLogin yes", text, flags=re.MULTILINE)
re_sub_permit(lines) ==
    [i \in 1..Len(lines) |->
        IF PermitPattern(lines[i]) THEN "PermitRootLogin yes" ELSE lines[i]]

\* configure_sshd: re.sub raises TypeError on the None of a failed read; its
\* result is not assigned, and write_file is given what was read
configure_sshd(f, read_io, write_io) ==
    LET sshd_config == text_read_file(f, read_io)
    IN IF sshd_config.none
       THEN [file |-> f, res |-> PyRaised, log |-> <<Step("read sshd_config", "fail")>>]
       ELSE LET substituted == re_sub_permit(sshd_config.lines)
                w == text_write_file(f, sshd_config.lines, write_io)
            IN [file |-> w.file, res |-> w.res,
                log |-> <<Step("read sshd_config", "ok"),
                          Step("write sshd_config", write_io)>>]

\* a call of configure_sshd
ConfigureSshd ==
    /\ \E read_io \in ReadOutcomes, write_io \in WriteOutcomes :
        /\ text_read_file(sys_file, read_io).none => write_io = "ok"
        /\ sys_file' = configure_sshd(sys_file, read_io, write_io).file
        /\ sys_res' = configure_sshd(sys_file, read_io, write_io).res
        /\ sys_log' = configure_sshd(sys_file, read_io, write_io).log
        /\ sys_in' = SysIn("", <<read_io, write_io>>, <<>>)
    /\ sys_op' = "configure_sshd"
    /\ sys_before' = SysBefore
    /\ UNCHANGED <<sys_mounts, pipevars, libvars, cmdvars>>

(***************************************************************************)
(* lib/network.py: configure_networking                                    *)
(***************************************************************************)
\* the steps of configure_networking, in program order
NetSteps ==
    <<"systemctl enable dbus", "write 99-default.network",
      "systemctl enable systemd-networkd", "makedirs /run/systemd/resolve",
      "remove /etc/resolv.conf", "cp resolv.conf", "symlink resolv.conf",
      "systemctl enable systemd-resolved", "read sshd_config", "write sshd_config",
      "systemctl enable ssh">>

\* what the host can do to each step: a systemd_enable call (Chroot and
\* run_cmd, nothing caught) can raise; the other steps return False or raise
\* inside a try, which is "fail" here; the write can fail in open() or after
NetOutcomes(i) ==
    IF i \in {1, 3, 8, 11} THEN CmdOutcomes
    ELSE IF i = 10 THEN WriteOutcomes
    ELSE {"ok", "fail"}

\* the state of a call: steps made, the variable success, an exception on its
\* way out
NetStart == [log |-> <<>>, success |-> TRUE, raised |-> FALSE]

\* a step whose exception nothing catches
net_uncaught(st, i, e) ==
    [log |-> Append(st.log, Step(NetSteps[i], e[i])),
     success |-> e[i] = "ok", raised |-> e[i] = "raise"]

\* a step that returns a boolean, or whose exception is caught and sets
\* success = False
net_caught(st, i, e) ==
    [log |-> Append(st.log, Step(NetSteps[i], e[i])),
     success |-> e[i] = "ok", raised |-> FALSE]

\* lines 52-53
NetDbus(e) == net_uncaught(NetStart, 1, e)

\* lines 55-61
NetNetworkd(st, e) ==
    LET w == net_caught(st, 2, e)
    IN IF st.raised \/ ~st.success THEN st
       ELSE IF w.success THEN net_uncaught(w, 3, e)
       ELSE w

\* lines 65-81: the try block; the first statement that raises ends it
NetResolvFiles(st, e) ==
    LET made == net_caught(st, 4, e)
        removed == net_caught(made, 5, e)
    IN IF ~made.success THEN made
       ELSE IF ~removed.success THEN removed
       ELSE net_caught(removed, 6, e)

\* lines 83-89
NetSymlink(st, e) == IF st.success THEN net_caught(st, 7, e) ELSE st

\* mutant: systemd-resolved is enabled whatever success holds
NetResolved_Always(st, e) == net_uncaught(st, 8, e)

\* line 91: success = success and systemd_enable("systemd-resolved", ...)
NetResolved(st, e) == IF st.success THEN net_uncaught(st, 8, e) ELSE st

\* lines 93-113: read_file, re.sub in a try (TypeError on None), then
\* success and write_file(...) and systemd_enable("ssh", ...)
NetSshd(st, e) ==
    LET read == net_caught(st, 9, e)
        written == net_caught(read, 10, e)
    IN IF st.raised \/ ~st.success THEN st
       ELSE IF ~read.success THEN read
       ELSE IF ~written.success THEN written
       ELSE net_uncaught(written, 11, e)

\* configure_networking: the steps made and the value returned
configure_networking(e) ==
    LET s2 == NetNetworkd(NetDbus(e), e)
        files == NetResolvFiles(s2, e)
        linked == NetSymlink(files, e)
        resolved == NetResolved(linked, e)
        s3 == IF s2.raised \/ ~s2.success THEN s2 ELSE NetSshd(resolved, e)
    IN [log |-> s3.log, res |-> IF s3.raised THEN PyRaised ELSE PyBool(s3.success)]

\* what the host does during one call, one outcome per step (the outcome the
\* step would have if it were made): steps k1 and k2 have outcomes o1 and o2,
\* every other step succeeds
NetEnv(k1, o1, k2, o2) ==
    [i \in 1..11 |-> IF i = k1 THEN o1 ELSE IF i = k2 THEN o2 ELSE "ok"]

\* the pattern of line 100 matches nothing ("$" right after a lookahead that
\* needs more text): the text written is the text read
net_re_sub(lines) == lines

\* a call of configure_networking("/mnt")
ConfigureNetworking ==
    /\ \E k1 \in 1..11, k2 \in 1..11 : \E o1 \in NetOutcomes(k1), o2 \in NetOutcomes(k2) :
        /\ k1 <= k2
        /\ k1 = k2 => o1 = o2
        /\ \E e \in {NetEnv(k1, o1, k2, o2)} : \E r \in {configure_networking(e)} :
           LET wrote == \E j \in 1..Len(r.log) : r.log[j].cmd = NetSteps[10]
               read == \E j \in 1..Len(r.log) : r.log[j].cmd = NetSteps[9]
           IN
           /\ (read /\ e[9] = "ok") => ~text_read_file(sys_file, "ok").none
           /\ sys_file' = IF wrote
                          THEN text_write_file(sys_file, net_re_sub(sys_file.lines), e[10]).file
                          ELSE sys_file
           /\ sys_log' = r.log
           /\ sys_res' = r.res
           /\ sys_in' = SysIn("/mnt", e, <<>>)
    /\ sys_op' = "configure_networking"
    /\ sys_before' = SysBefore
    /\ UNCHANGED <<sys_mounts, pipevars, libvars, cmdvars>>

SysIdle ==
    /\ sys_op = "none"
    /\ sys_in = SysIn("", <<>>, <<>>)
    /\ sys_res = PyNone
    /\ sys_log = <<>>
    /\ sys_mounts = NoMounts
    /\ sys_file = SshdMissing
    /\ sys_before = [file |-> SshdMissing, mounts |-> NoMounts]

FileInit == {FileMissing, FileUnreadable, FileGarbage, FileList}

PipeInit ==
    /\ disk \in FileInit
    /\ pc = "idle"
    /\ old_status = PyDict(EmptyDict)
    /\ new_status = EmptyDict
    /\ img_file = ""
    /\ loop_dev = ""
    /\ calls = <<>>
    /\ saves = <<>>
    /\ ret = -1
    /\ prev = [ran |-> FALSE, ret |-> -1, saves |-> <<>>]
    /\ host = FreshHost

LibIdle ==
    /\ lib_file = FileMissing
    /\ lib_op = "none"
    /\ lib_arg = LibArg(EmptyDict, 0)
    /\ lib_res = PyNone
    /\ lib_env = LibEnv("ok", PyNone)

PipeIdle ==
    /\ disk = FileMissing
    /\ pc = "idle"
    /\ old_status = PyDict(EmptyDict)
    /\ new_status = EmptyDict
    /\ img_file = ""
    /\ loop_dev = ""
    /\ calls = <<>>
    /\ saves = <<>>
    /\ ret = -1
    /\ prev = [ran |-> FALSE, ret |-> -1, saves |-> <<>>]
    /\ host = FreshHost

LibInit ==
    /\ lib_file \in FileInit
    /\ lib_op = "none"
    /\ lib_arg = LibArg(EmptyDict, 0)
    /\ lib_res = PyNone
    /\ lib_env = LibEnv("ok", PyNone)

Init == PipeInit /\ LibIdle /\ CmdIdle /\ SysIdle

Next ==
    \/ Start
    \/ StageImgFile
    \/ StageLoopDev
    \/ StageFormat
    \/ StageMountRoot
    \/ MakeBootDir
    \/ StageMountBoot
    \/ StageDebootstrap
    \/ ConfigureHostname
    \/ ConfigureLocale
    \/ ConfigureKeyboard
    \/ ConfigureApt
    \/ UnmountBoot
    \/ UnmountRoot
    \/ DeleteLoopDev

Spec == Init /\ [][Next]_vars

InitLib == PipeIdle /\ LibInit /\ CmdIdle /\ SysIdle

NextLib ==
    \/ LibReadFile
    \/ LibWriteFile
    \/ ScriptSaveStatus
    \/ LibLoadStatus
    \/ LibSaveStatus
    \/ LibExitScript

SpecLib == InitLib /\ [][NextLib]_vars

InitCmd == PipeIdle /\ LibIdle /\ CmdIdle /\ SysIdle

NextCmd ==
    \/ RunCmd
    \/ WithChroot

SpecCmd == InitCmd /\ [][NextCmd]_vars

\* /etc/ssh/sshd_config is any of the files
SysNetInit ==
    /\ sys_op = "none"
    /\ sys_in = SysIn("", <<>>, <<>>)
    /\ sys_res = PyNone
    /\ sys_log = <<>>
    /\ sys_mounts = NoMounts
    /\ sys_file \in SshdFiles
    /\ sys_before = [file |-> SshdMissing, mounts |-> NoMounts]

InitNet == PipeIdle /\ LibIdle /\ CmdIdle /\ SysNetInit

NextNet ==
    \/ ConfigureNetworking
    \/ ConfigureSshd

SpecNet == InitNet /\ [][NextNet]_vars

InitSys == PipeIdle /\ LibIdle /\ CmdIdle /\ SysIdle

NextKernel ==
    \/ InstallKernel

SpecKernel == InitSys /\ [][NextKernel]_vars

NextDisk ==
    \/ LosetupCreate
    \/ FormatPartition

SpecDisk == InitSys /\ [][NextDisk]_vars

(***************************************************************************)
(* Properties of the pipeline (Spec)                                       *)
(***************************************************************************)
Running == pc \notin {"idle", "done", "raised"}

LastCall == calls[Len(calls)]

AllCallsOk == \A i \in 1..Len(calls) : calls[i].ok

Invoked(fn, at) == \E i \in 1..Len(calls) : calls[i].fn = fn /\ calls[i].at = at

\* the action of the stage that has marker k
KeyActionInvoked(k) ==
    CASE k = "img_file" -> Invoked("create_imgfile", "")
      [] k = "loop_dev" -> Invoked("img_file_to_loop_dev", "")
      [] k = "loop_dev_fmt" -> Invoked("format_loop_dev", "")
      [] k = "mount_root" -> Invoked("mount_device", "/mnt")
      [] k = "mount_boot" -> Invoked("mount_device", "/mnt/boot/firmware")
      [] k = "debootstrap" -> Invoked("do_debootstrap", "")

StagePos(p) == CHOOSE i \in 1..Len(Stages) : Stages[i] = p

\* the markers of the keyed stages that come before the stage of call c, less
\* the markers of the mounts the teardown has already undone
MarkersBefore(c) ==
    CASE c.fn = "create_imgfile" -> {}
      [] c.fn = "img_file_to_loop_dev" -> {"img_file"}
      [] c.fn = "format_loop_dev" -> {"img_file", "loop_dev"}
      [] c.fn = "mount_device" /\ c.at = "/mnt" -> {"img_file", "loop_dev", "loop_dev_fmt"}
      [] c.fn = "mount_device" /\ c.at # "/mnt" ->
            {"img_file", "loop_dev", "loop_dev_fmt", "mount_root"}
      [] c.fn = "do_debootstrap" -> Keys \ {"debootstrap"}
      [] c.fn = "unmount_device" /\ c.arg = root_partition(loop_dev) -> Keys \ {"mount_boot"}
      [] c.fn = "delete_loop_dev" -> Keys \ {"mount_boot", "mount_root"}
      [] OTHER -> Keys

StageFailed == Len(calls) > 0 /\ ~LastCall.ok /\ LastCall.fn # "os.makedirs"

\* C1 (idempotent resume): a stage whose marker is in the snapshot loaded at
\* the start of the run never has its action invoked in that run.
C1_IdempotentResume ==
    \A k \in Keys :
        (pc # "idle" /\ old_status.type = "dict" /\ k \in DOMAIN old_status.val)
            => ~KeyActionInvoked(k)

\* a run that found all six markers has gone through every stage
C1_Witness ==
    /\ pc = "done"
    /\ ret = 0
    /\ DOMAIN old_status.val = Keys
    /\ Len(calls) = 8

\* C2 (fail-fast): a failed action is the last action of its run; when a stage
\* action fails the run has returned 1 and has handed to save_status exactly
\* the markers of the keyed stages before the failed one (no marker of the
\* failed stage), which is what the status file holds when the write succeeds.
C2_FailFast ==
    /\ \A i \in 1..(Len(calls) - 1) : calls[i].ok
    /\ StageFailed =>
        /\ pc = "done"
        /\ ret = 1
        /\ Len(saves) = 1
        /\ DOMAIN saves[1].status = MarkersBefore(LastCall)
        /\ (saves[1].io = "ok" => disk = FileDict(saves[1].status))

\* from an empty status the root mount fails: img_file, loop_dev (and
\* loop_dev_fmt) are recorded, mount_root is not
C2_Witness ==
    /\ pc = "done"
    /\ old_status = PyDict(EmptyDict)
    /\ StageFailed
    /\ LastCall.fn = "mount_device"
    /\ LastCall.at = "/mnt"
    /\ saves[1].io = "ok"
    /\ disk.kind = "dict"
    /\ DOMAIN disk.val = {"img_file", "loop_dev", "loop_dev_fmt"}

\* C3 (save exactly once, at the end): a run that has returned has called
\* save_status exactly once, and a run that has not returned has not called it.
C3_SaveOnceAtEnd ==
    /\ pc = "done" => Len(saves) = 1
    /\ Running => Len(saves) = 0

\* C4 (no-op persistence): a successful run that found all six markers in the
\* loaded snapshot writes that snapshot back unchanged.
C4_NoOpPersistence ==
    (pc = "done" /\ ret = 0 /\ DOMAIN old_status.val = Keys)
        => (Len(saves) = 1 /\ saves[1].status = old_status.val)

\* C5 (clearing transient state): the snapshot saved by a run that returns 0
\* has none of loop_dev, mount_root, mount_boot.
C5_TransientCleared ==
    (pc = "done" /\ ret = 0)
        => /\ Len(saves) = 1
           /\ DOMAIN saves[1].status \cap {"loop_dev", "mount_root", "mount_boot"} = {}
           /\ (saves[1].io = "ok" => disk = FileDict(saves[1].status))

\* the prior snapshot held the three transient markers
C5_Witness ==
    /\ pc = "done"
    /\ ret = 0
    /\ {"loop_dev", "mount_root", "mount_boot"} \subseteq DOMAIN old_status.val
    /\ saves[1].io = "ok"

\* C6 (steady facts retained): the snapshot saved by a run that returns 0
\* records img_file with the name the run used, and a run that starts from the
\* snapshot written by such a run uses that name and never invokes create_imgfile.
C6_ImageRetained ==
    /\ (pc = "done" /\ ret = 0)
        => /\ Len(saves) = 1
           /\ "img_file" \in DOMAIN saves[1].status
           /\ saves[1].status["img_file"] = img_file
    /\ (pc # "idle" /\ prev.ran /\ prev.ret = 0 /\ prev.saves[1].io = "ok")
        => /\ ~Invoked("create_imgfile", "")
           /\ pc # "img_file" => img_file = prev.saves[1].status["img_file"]

\* two successful runs in a row, the first one having created the image
C6_Witness ==
    /\ pc = "done"
    /\ ret = 0
    /\ prev.ran
    /\ prev.ret = 0
    /\ prev.saves[1].io = "ok"
    /\ img_file = "test.img"
    /\ Len(calls) > 0

\* the steady facts a first run leaves
SteadySnapshot ==
    [k \in {"img_file", "loop_dev_fmt", "debootstrap"} |->
        IF k = "img_file" THEN "test.img" ELSE JsonTrue]

EmptyStartAllOk == pc = "done" /\ old_status = PyDict(EmptyDict) /\ AllCallsOk

\* C7 as stated (first run): from an empty status with every action
\* succeeding, the run returns 0 and saves a snapshot equal to the empty
\* initial one.
C7_FirstRunEmpty ==
    EmptyStartAllOk
        => (ret = 0 /\ Len(saves) = 1 /\ saves[1].status = old_status.val)

\* C7 as amended (first run): from an empty status with every action
\* succeeding, the run returns 0 and saves exactly the steady facts img_file
\* ("test.img"), loop_dev_fmt and debootstrap; only loop_dev, mount_root and
\* mount_boot have been cleared.
C7_FirstRunSteady ==
    EmptyStartAllOk
        => /\ ret = 0
           /\ Len(saves) = 1
           /\ saves[1].status = SteadySnapshot
           /\ (saves[1].io = "ok" => disk = FileDict(SteadySnapshot))

C7_Witness ==
    /\ EmptyStartAllOk
    /\ Len(calls) = 14
    /\ saves[1].io = "ok"

C9_CorruptRecovery ==
    /\ pc # "raised"
    /\ (Running /\ disk.kind # "dict")
        => /\ old_status = PyDict(EmptyDict)
           /\ \A k \in Keys : StagePos(pc) > StagePos(k) => KeyActionInvoked(k)

\* the file holds a bare list and the run has executed all six keyed stages
C9_Witness ==
    /\ pc = "hostname"
    /\ disk.kind = "list"
    /\ Len(calls) = 7

\* the stage of main() that made call c
CallStage(c) ==
    CASE c.fn = "create_imgfile" -> "img_file"
      [] c.fn = "img_file_to_loop_dev" -> "loop_dev"
      [] c.fn = "format_loop_dev" -> "loop_dev_fmt"
      [] c.fn = "mount_device" /\ c.at = "/mnt" -> "mount_root"
      [] c.fn = "os.makedirs" -> "makedirs"
      [] c.fn = "mount_device" /\ c.at # "/mnt" -> "mount_boot"
      [] c.fn = "do_debootstrap" -> "debootstrap"
      [] c.fn = "configure_hostname" -> "hostname"
      [] c.fn = "configure_locale" -> "locale"
      [] c.fn = "configure_keyboard" -> "keyboard"
      [] c.fn = "configure_apt" -> "apt"
      [] c.fn = "unmount_device" /\ c.arg = loop_dev \o "p1" -> "unmount_boot"
      [] c.fn = "unmount_device" /\ c.arg # loop_dev \o "p1" -> "unmount_root"
      [] OTHER -> "delete_loop"

\* the run has gone through the keyed stage k (skipped, completed or failed)
Reached(k) ==
    \/ Running /\ StagePos(pc) > StagePos(k)
    \/ pc = "done" /\ StagePos(CallStage(LastCall)) >= StagePos(k)

MakedirsFailedAt(i) == calls[i].fn = "os.makedirs" /\ ~calls[i].ok

\* C16 as stated (fatal setup failure): when os.makedirs fails the run aborts
\* before any stage action has been executed.
C16_AbortBeforeStages ==
    \A i \in 1..Len(calls) : MakedirsFailedAt(i) => Len(calls) = 1

\* C16 as amended: when os.makedirs fails the run aborts at once with 1 and
\* no later action runs; the four stages before it (img_file, loop_dev,
\* loop_dev_fmt, mount_root) have been evaluated, each one whose marker was
\* absent from the prior snapshot having executed its action, and no action of
\* the mount_boot or debootstrap stage has run.
C16_AbortAfterRootMount ==
    \A i \in 1..Len(calls) : MakedirsFailedAt(i) =>
        /\ i = Len(calls)
        /\ pc = "done"
        /\ ret = 1
        /\ \A k \in {"img_file", "loop_dev", "loop_dev_fmt", "mount_root"} :
              KeyActionInvoked(k) <=> k \notin DOMAIN old_status.val
        /\ ~KeyActionInvoked("mount_boot")
        /\ ~KeyActionInvoked("debootstrap")

\* a first run has created, attached, formatted and mounted before the abort
C16_Witness ==
    /\ Len(calls) = 5
    /\ MakedirsFailedAt(5)
    /\ old_status = PyDict(EmptyDict)

\* C17 (skip decisions): a keyed stage the run has gone through was skipped
\* exactly when its key is in the snapshot loaded at the start, whatever the
\* run has put into new_status.
C17_SkipOnPriorOnly ==
    \A k \in Keys :
        (old_status.type = "dict" /\ Reached(k))
            => (KeyActionInvoked(k) <=> k \notin DOMAIN old_status.val)

\* three stages skipped and three executed, new_status holding other keys
\* than old_status
C17_Witness ==
    /\ pc = "unmount_boot"
    /\ DOMAIN old_status.val = {"img_file", "loop_dev", "loop_dev_fmt"}
    /\ DOMAIN new_status = Keys
    /\ Len(calls) = 8

CallClass(c) ==
    CASE c.fn = "format_loop_dev" -> "format"
      [] c.fn = "mount_device" -> "mount"
      [] c.fn = "do_debootstrap" -> "bootstrap"
      [] c.fn \in {"configure_hostname", "configure_locale", "configure_keyboard",
                   "configure_apt"} -> "config"
      [] c.fn = "unmount_device" /\ c.arg = loop_dev \o "p1" -> "unmount_boot"
      [] c.fn = "unmount_device" /\ c.arg # loop_dev \o "p1" -> "unmount_root"
      [] c.fn = "delete_loop_dev" -> "delete"
      [] OTHER -> "other"

\* the order the claim asks for
MustPrecede ==
    {<<"format", "mount">>, <<"mount", "bootstrap">>, <<"bootstrap", "config">>,
     <<"config", "unmount_boot">>, <<"config", "unmount_root">>,
     <<"unmount_boot", "unmount_root">>,
     <<"unmount_boot", "delete">>, <<"unmount_root", "delete">>}

\* C18 (stage ordering): among the actions a run has executed, formatting
\* is before every mount, the mounts before bootstrap, bootstrap before every
\* configuration write, these before every unmount, the boot unmount before
\* the root unmount, and the unmounts before the loop-device deletion.
C18_StageOrder ==
    \A i, j \in 1..Len(calls) :
        <<CallClass(calls[i]), CallClass(calls[j])>> \in MustPrecede => i < j

\* a run that executed every action
C18_Witness ==
    /\ pc = "done"
    /\ Len(calls) = 14
    /\ LastCall.fn = "delete_loop_dev"
    /\ LastCall.ok

\* C19 (copy-forward): a skipped img_file or loop_dev stage puts the prior
\* value into new_status, and every later action on the loop device in that
\* run (format, mount of <dev>p2 on /mnt and of <dev>p1 on /mnt/boot/firmware,
\* unmounts, delete) is given that prior device.
C19_CopyForward ==
    /\ (old_status.type = "dict" /\ "img_file" \in DOMAIN old_status.val /\ Reached("img_file"))
        => /\ img_file = old_status.val["img_file"]
           /\ "img_file" \in DOMAIN new_status
           /\ new_status["img_file"] = old_status.val["img_file"]
    /\ (old_status.type = "dict" /\ "loop_dev" \in DOMAIN old_status.val /\ Reached("loop_dev"))
        => /\ loop_dev = old_status.val["loop_dev"]
           /\ "loop_dev" \in DOMAIN new_status
                => new_status["loop_dev"] = old_status.val["loop_dev"]
           /\ (Running /\ StagePos(pc) <= StagePos("delete_loop"))
                => "loop_dev" \in DOMAIN new_status
           /\ \A i \in 1..Len(calls) :
                /\ calls[i].fn \in {"format_loop_dev", "delete_loop_dev"}
                     => calls[i].arg = old_status.val["loop_dev"]
                /\ (calls[i].fn = "mount_device" /\ calls[i].at = "/mnt")
                     => calls[i].arg = old_status.val["loop_dev"] \o "p2"
                /\ (calls[i].fn = "mount_device" /\ calls[i].at = "/mnt/boot/firmware")
                     => calls[i].arg = old_status.val["loop_dev"] \o "p1"
                /\ calls[i].fn = "unmount_device"
                     => calls[i].arg \in {old_status.val["loop_dev"] \o "p1",
                                          old_status.val["loop_dev"] \o "p2"}

\* the attach stage was skipped and the recorded device /dev/loop1 was then
\* formatted, mounted, unmounted and deleted
C19_Witness ==
    /\ pc = "done"
    /\ ret = 0
    /\ DOMAIN old_status.val = {"img_file", "loop_dev"}
    /\ old_status.val["loop_dev"] = "/dev/loop1"
    /\ Len(calls) = 12

\* the marker k is in the status file on disk
OnDisk(k) == disk.kind = "dict" /\ k \in DOMAIN disk.val

\* C20 (snapshot/host consistency after failure): over any sequence of runs
\* from an empty status and an unattached host, failing commands having no
\* effect, when a run has returned 1 (its write of the status file, if it made
\* one, having succeeded) every loop device still attached is the loop_dev of
\* the status file on disk, a partition still mounted on /mnt has mount_root
\* there and one still mounted on /mnt/boot/firmware has mount_boot there; so
\* no second loop device is ever attached next to a recorded one.
C20_HostInSnapshot ==
    (pc = "done" /\ ret = 1 /\ (saves = <<>> \/ saves[1].io = "ok")) =>
        /\ \A d \in host.loops : OnDisk("loop_dev") /\ disk.val["loop_dev"] = d
        /\ host.root # {} => OnDisk("mount_root")
        /\ host.boot # {} => OnDisk("mount_boot")

\* the facts that describe the image, not the host
SteadyKeys == {"img_file", "loop_dev_fmt", "debootstrap"}

\* C21 (steady facts are monotone across runs): a steady fact (img_file,
\* loop_dev_fmt, debootstrap) recorded by the snapshot a run loaded is still
\* recorded by the snapshot that run hands to save_status, whether the run
\* succeeded or failed; so a later run never formats or bootstraps again.
C21_SteadyMonotone ==
    (pc = "done" /\ saves # <<>> /\ old_status.type = "dict") =>
        \A k \in SteadyKeys :
            k \in DOMAIN old_status.val => k \in DOMAIN saves[1].status

\* the stages of main() that have no key in the status
ConfigStages == {"hostname", "locale", "keyboard", "apt"}

TeardownStages == {"unmount_boot", "unmount_root", "delete_loop"}

StageInvoked(s) == \E i \in 1..Len(calls) : CallStage(calls[i]) = s

\* the run has ended at or after the stage s
EndedFrom(s) ==
    pc = "done" /\ Len(calls) > 0 /\ StagePos(CallStage(LastCall)) >= StagePos(s)

\* C22 as stated (configuration and teardown are not checkpointed): a run
\* that got past the bootstrap stage has executed the four configuration
\* actions, and a run that got past these has attempted the boot unmount, the
\* root unmount and the loop-device deletion.
C22_AllAttempted ==
    /\ EndedFrom("hostname") => \A s \in ConfigStages : StageInvoked(s)
    /\ EndedFrom("unmount_boot") => \A s \in TeardownStages : StageInvoked(s)

\* C22 as amended: whatever the prior snapshot holds, every configuration
\* and teardown stage the run has gone through has invoked its action, these
\* actions are invoked in program order, and a run that returned 0 has invoked
\* all seven; a failing one ends the run, so the later ones are not invoked.
C22_NotCheckpointed ==
    /\ \A s \in ConfigStages \cup TeardownStages :
          Reached(s) => StageInvoked(s)
    /\ \A i, j \in 1..Len(calls) :
          (i < j /\ CallStage(calls[i]) \in ConfigStages \cup TeardownStages)
              => StagePos(CallStage(calls[i])) < StagePos(CallStage(calls[j]))
    /\ (pc = "done" /\ ret = 0) =>
          \A s \in ConfigStages \cup TeardownStages : StageInvoked(s)
    /\ \A i \in 1..Len(calls) :
          (CallStage(calls[i]) \in ConfigStages \cup TeardownStages /\ ~calls[i].ok)
              => (i = Len(calls) /\ pc = "done" /\ ret = 1)

\* every keyed stage was skipped, and the run configured, unmounted and deleted
C22_Witness ==
    /\ pc = "done"
    /\ ret = 0
    /\ DOMAIN old_status.val = Keys
    /\ Len(calls) = 8
    /\ \A s \in ConfigStages \cup TeardownStages : StageInvoked(s)

(***************************************************************************)
(* Properties of the status store of lib/common.py (SpecLib)               *)
(***************************************************************************)
\* C10 (load contract): lib.common.load_status never raises, and returns an
\* empty snapshot when the file is missing, unreadable or not valid JSON.
C10_LibLoadNeverRaises ==
    lib_op = "load_status"
        => /\ lib_res # PyRaised
           /\ lib_file.kind \in {"missing", "unreadable", "garbage"}
                => lib_res = PyDict(EmptyDict)

CommandExited ==
    cmd_op = "run_cmd" /\ cmd_in.env.enter = "ok" /\ cmd_in.env.launch = "ok"

\* r is s without its leading and trailing whitespace
IsStripOf(r, s) ==
    /\ \E i \in 1..(Len(s) + 1), j \in 0..Len(s) :
        /\ r = SubSeq(s, i, j)
        /\ \A k \in 1..Len(s) : (k < i \/ k > j) => s[k] \in Whitespace
    /\ r # <<>> => (r[1] \notin Whitespace /\ r[Len(r)] \notin Whitespace)

\* C11 (executor never faults): a call of run_cmd returns a boolean, None or
\* a str; no exception leaves it.
C11_RunCmdNeverRaises ==
    cmd_op = "run_cmd" => (cmd_res # PyRaised /\ cmd_res.type \in {"bool", "NoneType", "str"})

\* C12 (executor result): when the command exited non-zero run_cmd returns
\* False, or None if output was asked for; when it exited zero run_cmd returns
\* True, or the stripped stdout if output was asked for.
C12_RunCmdResult ==
    CommandExited =>
        IF cmd_in.env.rc # 0
        THEN cmd_res = (IF cmd_in.return_output THEN PyNone ELSE PyBool(FALSE))
        ELSE IF cmd_in.return_output
        THEN cmd_res.type = "str" /\ IsStripOf(cmd_res.chars, cmd_in.env.stdout)
        ELSE cmd_res = PyBool(TRUE)

\* under a chroot, output " a\n" of a successful command comes back as "a"
C12_Witness ==
    /\ CommandExited
    /\ cmd_in.chroot = ChrootDir
    /\ cmd_in.return_output
    /\ cmd_in.env.rc = 0
    /\ cmd_in.env.stdout = <<" ", "a", "\n">>
    /\ cmd_res = PyText(<<"a">>)

\* C13 (scoped chroot): after a statement "with Chroot(directory)", also
\* inside run_cmd, the root, the working directory and the number of open
\* descriptors of the process are what they were before it.
C13_ChrootRestores ==
    (cmd_op = "with_chroot" \/ (cmd_op = "run_cmd" /\ cmd_in.chroot # ""))
        => proc = cmd_before

(***************************************************************************)
(* Properties of the file reader / writer of lib/common.py (SpecLib)       *)
(***************************************************************************)
\* C14 (failure reporting): read_file and write_file never raise; write_file
\* returns True only when open and write succeeded, and the file then holds
\* the contents; it returns False on every failure; read_file returns None on
\* every failure to open or read and the text of the file otherwise.
C14_FileFailureReported ==
    /\ lib_op = "write_file" =>
        /\ lib_res \in {PyBool(TRUE), PyBool(FALSE)}
        /\ lib_res = PyBool(TRUE) =>
            /\ lib_env.io = "ok"
            /\ lib_env.contents.type = "str"
            /\ lib_file = [kind |-> lib_env.contents.text, val |-> lib_env.contents.val]
        /\ lib_env.io # "ok" => lib_res = PyBool(FALSE)
    /\ lib_op = "read_file" =>
        /\ lib_res # PyRaised
        /\ (lib_env.io # "ok" \/ lib_file.kind \in {"missing", "unreadable"}) => lib_res = PyNone
        /\ (lib_env.io = "ok" /\ lib_file.kind \notin {"missing", "unreadable"})
              => lib_res = PyStr(lib_file.kind, lib_file.val)

\* a write that failed after open() has left a truncated file and False
C14_Witness ==
    /\ lib_op = "write_file"
    /\ lib_env.io = "write_error"
    /\ lib_env.contents.type = "str"
    /\ lib_res = PyBool(FALSE)
    /\ lib_file = FileGarbage

\* C15 (save contract): save_status of create_img.py and of lib/common.py
\* never raise and tell the caller whether the snapshot was written: a true
\* value when it was, a false value that says so when it was not.
C15_SaveReports ==
    lib_op \in {"save_status", "create_img.save_status"} =>
        /\ lib_res # PyRaised
        /\ lib_env.io = "ok" => (lib_res = PyBool(TRUE) /\ lib_file = FileDict(lib_arg.status))
        /\ lib_env.io # "ok" => lib_res = PyBool(FALSE)

(***************************************************************************)
(* Properties of the functions of create_img_lib.py (SpecKernel),          *)
(* lib/disk.py (SpecDisk), lib/network.py and lib/system.py (SpecNet)      *)
(***************************************************************************)
LogHas(cmd, out) == \E i \in 1..Len(sys_log) : sys_log[i] = Step(cmd, out)

\* C23 (install_kernel leaves no bind mount behind): when install_kernel
\* has returned (every unmount it ran having succeeded), no mount point that
\* the call mounted is mounted more often than before the call, and
\* /mnt/dev/pts was unmounted before /mnt/dev.
C23_NoBindLeft ==
    (sys_op = "install_kernel"
        /\ \A p \in DOMAIN NoMounts : ~LogHas("umount " \o p, "fail")) =>
        /\ \A p \in DOMAIN NoMounts :
              LogHas("mount " \o p, "ok") => sys_mounts[p] <= sys_before.mounts[p]
        /\ \A i, j \in 1..Len(sys_log) :
              (sys_log[i].cmd = "umount /mnt/dev/pts" /\ sys_log[j].cmd = "umount /mnt/dev")
                  => i < j

\* C24 (losetup_create never raises): losetup_create returns the name of a
\* listed loop device or None and never raises; it returns None when the
\* loop-setup command fails, when the listing fails and when no listed device
\* matches.
C24_LosetupCreateSafe ==
    sys_op = "losetup_create" =>
        /\ sys_res # PyRaised
        /\ sys_in.env[1] = "fail" => sys_res = PyNone
        /\ (sys_in.env[1] = "ok" /\ sys_in.env[2] # "ok") => sys_res = PyNone
        /\ (sys_in.env[1] = "ok" /\ sys_in.env[2] = "ok"
              /\ \A i \in 1..Len(sys_in.data) :
                    ~InBackFile(sys_in.arg, sys_in.data[i].back_file))
              => sys_res = PyNone

\* C28 (format_partition): a fs_type other than vfat and ext4 gives False
\* and no command is run; for vfat and ext4 exactly one command, mkfs.<fs_type>
\* on the device, is run, and True is returned exactly when it exited with 0,
\* False when it exited with another code.
C28_FormatPartition ==
    sys_op = "format_partition" =>
        /\ sys_in.arg \notin {"vfat", "ext4"} =>
              (sys_res = PyBool(FALSE) /\ sys_log = <<>>)
        /\ sys_in.arg \in {"vfat", "ext4"} =>
              /\ Len(sys_log) = 1
              /\ sys_log[1].cmd = "mkfs." \o sys_in.arg \o " " \o sys_in.data[1]
              /\ sys_log[1].out = sys_in.env[1]
              /\ sys_res = PyBool(TRUE) <=> sys_log[1].out = "ok"
              /\ sys_log[1].out = "fail" => sys_res = PyBool(FALSE)

\* ext3 was rejected without a command
C28_Witness ==
    /\ sys_op = "format_partition"
    /\ sys_in.arg = "ext3"
    /\ sys_in.env[1] = "ok"
    /\ sys_res = PyBool(FALSE)
    /\ sys_log = <<>>

\* C26 (configure_sshd allows root logins): configure_sshd never raises,
\* reports failure when the file cannot be read, and when it returns True the
\* file holds what was read with every 'PermitRootLogin no' and
\* 'PermitRootLogin prohibit-password' line, commented or not, replaced by
\* 'PermitRootLogin yes'.
C26_SshdPermitsRoot ==
    sys_op = "configure_sshd" =>
        /\ sys_res # PyRaised
        /\ sys_log[1].out = "fail" => sys_res = PyBool(FALSE)
        /\ sys_res = PyBool(TRUE) =>
              sys_file = SshdText(re_sub_permit(sys_before.file.lines))

StepFailed(i) == sys_log[i].out # "ok"

\* C25 (configure_networking is fail-fast): the steps made are a prefix of
\* the fixed sequence, a step that failed is the last one made, and the call
\* returns a true value exactly when all the steps were made and succeeded.
C25_NetFailFast ==
    sys_op = "configure_networking" =>
        /\ Len(sys_log) \in 1..Len(NetSteps)
        /\ \A i \in 1..Len(sys_log) :
              /\ sys_log[i].cmd = NetSteps[i]
              /\ StepFailed(i) => i = Len(sys_log)
        /\ sys_res = PyBool(TRUE) <=>
              (Len(sys_log) = Len(NetSteps) /\ \A i \in 1..Len(sys_log) : ~StepFailed(i))
        /\ (\A i \in 1..Len(sys_log) : ~StepFailed(i)) => Len(sys_log) = Len(NetSteps)
        /\ sys_res \in {PyBool(TRUE), PyBool(FALSE), PyRaised}

\* the symlink failed: systemd-resolved and ssh were left alone
C25_Witness ==
    /\ sys_op = "configure_networking"
    /\ Len(sys_log) = 7
    /\ sys_log[7] = Step("symlink resolv.conf", "fail")
    /\ sys_res = PyBool(FALSE)

====
